---- MODULE Spec2Model ----
(***************************************************************************)
(* Line-scan acquisition protocol of the scanning-tunneling-microscope     *)
(* rig: the firmware's command state machine (code/stmV2serial.py), the    *)
(* host's serial I/O thread and its timer-driven scan-sequencing consumer  *)
(* (code/GUIserial.py).                                                    *)
(*                                                                         *)
(* Text on either wire is a sequence of atoms.  An atom is a line          *)
(* terminator byte (CR, LF) or one piece of text that holds no terminator: *)
(* a plain word ("LINE"), a KEY=value pair, or one comma-separated CSV     *)
(* value.  Words and pairs are separated by blanks, CSV values by commas.  *)
(* A value that int()/float() rejects is an atom with num = FALSE.         *)
(***************************************************************************)
EXTENDS Integers, Sequences, FiniteSets, TLC

VARIABLES
    \* ---- firmware (stmV2serial.py) ----
    frame_N, cur_line_idx, cur_dir, bias_code,   \* session globals
    dac,            \* last code written to each DAC channel
    dev_buf,        \* main loop's partial input line
    dev_alive,      \* the main loop is still running
    dev_last,       \* record of the last handled command (history)
    \* ---- the two directions of the serial link ----
    wire_tx,        \* host -> device, atoms not yet read by the device
    wire_rx,        \* device -> host, atoms not yet read by the host
    \* ---- host I/O thread (GUIserial.py, SerialIO) ----
    buf,            \* SerialIO.buf
    io_pc,          \* position of SerialIO.run
    io_hdr,         \* hdr held while the payload line is read
    ser_open,       \* the port is open
    stop_ev,        \* threading.Event shared with the GUI
    tx_q, data_q,   \* queue.Queue objects shared by the two host threads
    io_hist,        \* history of the I/O thread (lines sent, lines read)
    \* ---- host consumer (GUIserial.py, STMApp) ----
    scanning, line_idx, direction, linear_size, zoom_var, resolution_var,
    topo, y_buffer, progress, poll_armed,
    gui_last,       \* record of the last GUI handler run (history)
    \* ---- a function evaluated on its own ----
    fn              \* the function, its arguments and its result

devVars  == <<frame_N, cur_line_idx, cur_dir, bias_code, dac, dev_buf, dev_alive, dev_last>>
wireVars == <<wire_tx, wire_rx>>
ioVars   == <<buf, io_pc, io_hdr, ser_open, stop_ev, tx_q, data_q, io_hist>>
guiVars  == <<scanning, line_idx, direction, linear_size, zoom_var, resolution_var,
              topo, y_buffer, progress, poll_armed, gui_last>>
vars     == <<devVars, wireVars, ioVars, guiVars, fn>>

(***************************************************************************)
(* Atoms                                                                   *)
(***************************************************************************)
CR      == [a |-> "CR", k |-> "",  num |-> FALSE, n |-> 0]
LF      == [a |-> "LF", k |-> "",  num |-> FALSE, n |-> 0]
W(s)    == [a |-> "W",  k |-> s,   num |-> FALSE, n |-> 0]
KV(k,v) == [a |-> "KV", k |-> k,   num |-> TRUE,  n |-> v]
KVbad(k) == [a |-> "KV", k |-> k,  num |-> FALSE, n |-> 0]
F(v)    == [a |-> "F",  k |-> "",  num |-> TRUE,  n |-> v]
Fbad    == [a |-> "F",  k |-> "",  num |-> FALSE, n |-> 0]

IsTerm(x) == x.a \in {"CR", "LF"}

\* str.upper() on the words and keys that occur
Upper(s) ==
    CASE s = "line"  -> "LINE"
      [] s = "start" -> "START"
      [] s = "ok"    -> "OK"
      [] s = "n"     -> "N"
      [] s = "idx"   -> "IDX"
      [] OTHER       -> s

\* str.split(): the whitespace-separated tokens of a line; a CSV run
\* "v1,v2,..." is one token, kept here as its atoms
Parts(line) == SelectSeq(line, LAMBDA x : ~IsTerm(x))

(***************************************************************************)
(* Firmware: stmV2serial.py                                                *)
(***************************************************************************)
BIAS_CH == 3
X_CH    == 0
Y_CH    == 1
U16     == 65536      \* 16-bit DAC / ADC codes
MAX_N   == 4096
MIN_N   == 2
DEFAULT_N == 128
DEFAULT_BIAS == 20000
DEFAULT_COUNT == 200
MID_CODE == 32767

\* setDac(code16, channel): the packet carries code16 & 0xFFFF
setDac(d, code16, channel) == [d EXCEPT ![channel] = code16 % U16]

clamp_u16(x) == IF x < 0 THEN 0 ELSE IF x > U16 - 1 THEN U16 - 1 ELSE x

\* (a lin_code that divides by N) and (a lin_code that rounds to nearest)
lin_code_span(pos, N) ==
    IF N <= 1 THEN 0 ELSE clamp_u16((pos * (U16 - 1)) \div N)
lin_code_round(pos, N) ==
    IF N <= 1 THEN 0 ELSE clamp_u16((2 * pos * (U16 - 1) + (N - 1)) \div (2 * (N - 1)))

\* lin_code(pos, N): pixel index -> DAC code, floor division
lin_code(pos, N) ==
    IF N <= 1 THEN 0 ELSE clamp_u16((pos * (U16 - 1)) \div (N - 1))

\* getADC(): a 16-bit code read from the tip.  The surface is the environment:
\* the code read depends on where the X and Y outputs stand and on a profile p
\* the environment picks for the command.
Profiles == {0, 32800}
getADC(p, x_code, y_code) == (p + x_code + 7 * y_code) % U16
\* the i-th reading of a POINT burst
getADCPoint(p, i) == (p + 64 * i) % U16

\* read_height_avg(1) is (code - 32768) / 4096; '%.6f' % y prints it rounded to
\* six decimals.  Fmt6 is that text as an integer number of millionths
\* (round half to even, as exact decimal rounding of a binary fraction does).
Fmt6(code) ==
    LET num == (code - 32768) * 15625      \* height * 10^6 * 64
        q   == num \div 64
        r   == num % 64
    IN  IF 2 * r < 64 THEN q
        ELSE IF 2 * r > 64 THEN q + 1
        ELSE IF q % 2 = 0 THEN q ELSE q + 1

\* ','.join('%.6f' % y for y in ys)
CsvLine(ys) == [i \in 1..Len(ys) |-> F(Fmt6(ys[i]))]

\* parse_kv(parts): KEY=value tokens, key upper-cased, later ones win
KvKeys(parts) == {Upper(parts[i].k) : i \in {j \in 1..Len(parts) : parts[j].a = "KV"}}
parse_kv(parts) ==
    [key \in KvKeys(parts) |->
        LET idxs == {j \in 1..Len(parts) : parts[j].a = "KV" /\ Upper(parts[j].k) = key}
            last == CHOOSE j \in idxs : \A i \in idxs : i <= j
        IN  parts[last]]

Has(kv, key) == key \in DOMAIN kv

ErrLine(code)  == <<W("ERR"), KV("CODE", code), KVbad("MSG")>>
OkLine(msg)    == <<W("OK"), KVbad("MSG"), W(msg)>>

\* What one command handler did: exc = it raised; the session fields and DAC
\* outputs it left; out = the lines it printed; acq = its acquisition log
Outcome(exc, n, idx, dir, bias, d, out, acq) ==
    [exc |-> exc, frame_N |-> n, cur_line_idx |-> idx, cur_dir |-> dir,
     bias_code |-> bias, dac |-> d, out |-> out, acq |-> acq]
Same(out)  == Outcome(FALSE, frame_N, cur_line_idx, cur_dir, bias_code, dac, out, <<>>)
Raised     == Outcome(TRUE,  frame_N, cur_line_idx, cur_dir, bias_code, dac, <<>>, <<>>)

\* the range test of cmd_START and cmd_LINE: not (n < 2 or n > 4096)
NOffByOne(n) == ~(n < MIN_N \/ n >= MAX_N)
NInRange(n) == ~(n < MIN_N \/ n > MAX_N)

\* (a START that takes the new size and keeps the row it was on)
cmd_START_keep_idx(kv) ==
    IF ~Has(kv, "N") THEN Same(<<ErrLine(10)>>)
    ELSE IF ~kv["N"].num THEN Raised
    ELSE IF ~NInRange(kv["N"].n) THEN Same(<<ErrLine(11)>>)
    ELSE Outcome(FALSE, kv["N"].n, cur_line_idx, cur_dir, bias_code, dac,
                 <<OkLine("start-ready")>>, <<>>)
cmd_START(kv) ==
    IF ~Has(kv, "N") THEN Same(<<ErrLine(10)>>)
    ELSE IF ~kv["N"].num THEN Raised                     \* int() raises
    ELSE IF ~NInRange(kv["N"].n) THEN Same(<<ErrLine(11)>>)
    ELSE Outcome(FALSE, kv["N"].n, 0, 1, bias_code, dac, <<OkLine("start-ready")>>, <<>>)

\* (a cmd_BIAS that stores the code before it has validated it)
cmd_BIAS_eager(kv) ==
    IF ~Has(kv, "CODE") THEN Same(<<ErrLine(20)>>)
    ELSE IF ~kv["CODE"].num
         THEN Outcome(FALSE, frame_N, cur_line_idx, cur_dir, 0,
                      setDac(dac, 0, BIAS_CH), <<ErrLine(21)>>, <<>>)
    ELSE LET code == kv["CODE"].n % U16
         IN  Outcome(FALSE, frame_N, cur_line_idx, cur_dir, code,
                     setDac(dac, code, BIAS_CH), <<OkLine("bias-set")>>, <<>>)

\* (a BIAS that keeps CODE as given and masks it at the output only)
cmd_BIAS_nomask(kv) ==
    IF ~Has(kv, "CODE") THEN Same(<<ErrLine(20)>>)
    ELSE IF ~kv["CODE"].num THEN Same(<<ErrLine(21)>>)
    ELSE Outcome(FALSE, frame_N, cur_line_idx, cur_dir, kv["CODE"].n,
                 setDac(dac, kv["CODE"].n, BIAS_CH), <<OkLine("bias-set")>>, <<>>)

cmd_BIAS(kv) ==
    IF ~Has(kv, "CODE") THEN Same(<<ErrLine(20)>>)
    ELSE IF ~kv["CODE"].num THEN Same(<<ErrLine(21)>>)
    ELSE LET code == kv["CODE"].n % U16                 \* set_bias
         IN  Outcome(FALSE, frame_N, cur_line_idx, cur_dir, code,
                     setDac(dac, code, BIAS_CH), <<OkLine("bias-set")>>, <<>>)

\* (a STATUS that restarts the row walk)
cmd_STATUS_rewind ==
    Outcome(FALSE, frame_N, 0, 1, bias_code, dac,
            <<<<W("OK"), KVbad("MSG"), KV("N", frame_N), KV("IDX", 0),
                KV("DIR", 1), KV("BIAS_CODE", bias_code)>>>>, <<>>)

cmd_STATUS ==
    Same(<<<<W("OK"), KVbad("MSG"), KV("N", frame_N), KV("IDX", cur_line_idx),
             KV("DIR", cur_dir), KV("BIAS_CODE", bias_code)>>>>)

\* (a POINT that takes COUNT as it comes)
cmd_POINT_noclamp(kv, p) ==
    IF Has(kv, "COUNT") /\ ~kv["COUNT"].num THEN Raised
    ELSE LET cnt == IF Has(kv, "COUNT") THEN kv["COUNT"].n ELSE DEFAULT_COUNT
             ys  == [i \in 1..cnt |-> getADCPoint(p, i)]
         IN  Same(<<<<W("POINT"), W("OK"), KV("COUNT", cnt)>>, CsvLine(ys)>>)

cmd_POINT(kv, p) ==
    IF Has(kv, "COUNT") /\ ~kv["COUNT"].num THEN Raised
    ELSE LET c0  == IF Has(kv, "COUNT") THEN kv["COUNT"].n ELSE DEFAULT_COUNT
             cnt == IF c0 < 1 THEN 1 ELSE IF c0 > MAX_N THEN MAX_N ELSE c0
             ys  == [i \in 1..cnt |-> getADCPoint(p, i)]
         IN  Same(<<<<W("POINT"), W("OK"), KV("COUNT", cnt)>>, CsvLine(ys)>>)

\* cmd_LINE's zig-zag choice: +1 if (IDX % 2 == 0) else -1
LineDirToggle(IDX) == -cur_dir
LineDir(IDX) == IF IDX % 2 = 0 THEN 1 ELSE -1

\* cmd_LINE's index test: not (IDX < 0 or IDX >= N)
IdxInclusive(IDX, N) == ~(IDX < 0 \/ IDX > N)
IdxInRange(IDX, N) == ~(IDX < 0 \/ IDX >= N)

\* x_iter: the k-th X position swept (k = 1..N), range(N) or range(N-1, -1, -1)
XIterForward(dir, N, k) == k - 1
x_iter(dir, N, k) == IF dir > 0 THEN k - 1 ELSE N - k

cmd_LINE(kv, p) ==
    IF ~Has(kv, "N") \/ ~Has(kv, "IDX") THEN Same(<<ErrLine(30)>>)
    ELSE IF ~kv["N"].num \/ ~kv["IDX"].num THEN Raised
    ELSE LET N   == kv["N"].n
             IDX == kv["IDX"].n
         IN  IF ~NInRange(N) THEN Same(<<ErrLine(31)>>)
             ELSE IF ~IdxInRange(IDX, N) THEN Same(<<ErrLine(32)>>)
             ELSE LET dir    == LineDir(IDX)
                      y_code == lin_code(IDX, N)
                      pos(k) == x_iter(dir, N, k)
                      ys     == [k \in 1..N |-> getADC(p, lin_code(pos(k), N), y_code)]
                      acq    == [k \in 1..N |->
                                   [pos |-> pos(k), x_code |-> lin_code(pos(k), N),
                                    adc |-> ys[k]]]
                      d1     == setDac(setDac(dac, y_code, Y_CH), bias_code, BIAS_CH)
                      d2     == setDac(d1, lin_code(pos(N), N), X_CH)
                  IN  Outcome(FALSE, N, IDX, dir, bias_code, d2,
                              <<<<W("LINE"), W("OK"), KV("N", N), KV("IDX", IDX),
                                  KV("DIR", dir)>>, CsvLine(ys)>>, acq)

\* (a dispatch that lets an unknown command pass without a word)
Dispatch_silent(cmd, kv, p) ==
    CASE cmd = "START"  -> cmd_START(kv)
      [] cmd = "LINE"   -> cmd_LINE(kv, p)
      [] cmd = "POINT"  -> cmd_POINT(kv, p)
      [] cmd = "BIAS"   -> cmd_BIAS(kv)
      [] cmd = "STATUS" -> cmd_STATUS
      [] OTHER          -> Same(<<>>)

\* handle_line's dispatch, inside its try block
Dispatch(cmd, kv, p) ==
    CASE cmd = "START"  -> cmd_START(kv)
      [] cmd = "LINE"   -> cmd_LINE(kv, p)
      [] cmd = "POINT"  -> cmd_POINT(kv, p)
      [] cmd = "BIAS"   -> cmd_BIAS(kv)
      [] cmd = "STATUS" -> cmd_STATUS
      [] OTHER          -> Same(<<ErrLine(1)>>)

\* (a handle_line without its try/except)
handle_line_nocatch(line, p) ==
    LET parts == Parts(line)
    IN  IF parts = <<>> THEN Same(<<>>)
        ELSE Dispatch(IF parts[1].a = "W" THEN Upper(parts[1].k) ELSE "?",
                      parse_kv(Tail(parts)), p)

\* handle_line(line): a blank line is ignored; an exception of a handler is
\* caught and answered with ERR CODE=99 (exc stays TRUE only if it escapes)
handle_line(line, p) ==
    LET parts == Parts(line)
    IN  IF parts = <<>> THEN Same(<<>>)
        ELSE LET cmd == IF parts[1].a = "W" THEN Upper(parts[1].k) ELSE "?"
                 kv  == parse_kv(Tail(parts))
                 r   == Dispatch(cmd, kv, p)
             IN  IF r.exc THEN [r EXCEPT !.exc = FALSE, !.out = <<ErrLine(99)>>]
                 ELSE r

\* print(): the text and a newline
RECURSIVE Printed(_)
Printed(lines) ==
    IF lines = <<>> THEN <<>> ELSE Head(lines) \o <<LF>> \o Printed(Tail(lines))

Session == [frame_N |-> frame_N, cur_line_idx |-> cur_line_idx,
            cur_dir |-> cur_dir, bias_code |-> bias_code]

\* dev_last: how the last line was handled (none since the last line was sent)
\* fault_seen: some earlier line made its handler raise; start_seen: some
\* earlier START was accepted
NoLast == [valid |-> FALSE, line |-> <<>>, pre |-> Session, pre_dac |-> dac,
           out |-> <<>>, acq |-> <<>>, fault_seen |-> dev_last.fault_seen,
           start_seen |-> dev_last.start_seen]

\* Main loop, one character that is not a newline: buf += ch
DevReadChar ==
    /\ dev_alive
    /\ wire_tx # <<>>
    /\ Head(wire_tx).a # "LF"
    /\ dev_buf' = Append(dev_buf, Head(wire_tx))
    /\ wire_tx' = Tail(wire_tx)
    /\ UNCHANGED <<frame_N, cur_line_idx, cur_dir, bias_code, dac, dev_alive, dev_last,
                   wire_rx, ioVars, guiVars>>
    /\ UNCHANGED fn

\* Main loop, a newline: handle_line(buf); buf = "".  An exception that leaves
\* handle_line ends the loop in the outer handler, which zeroes the four DACs.
DevHandleLine ==
    /\ dev_alive
    /\ wire_tx # <<>>
    /\ Head(wire_tx).a = "LF"
    /\ wire_tx' = Tail(wire_tx)
    /\ dev_buf' = <<>>
    /\ \E p \in Profiles :
         \E r \in {handle_line(dev_buf, p)} :
             /\ frame_N' = r.frame_N
             /\ cur_line_idx' = r.cur_line_idx
             /\ cur_dir' = r.cur_dir
             /\ bias_code' = r.bias_code
             /\ dev_alive' = ~r.exc
             /\ dac' = IF r.exc THEN [ch \in 0..3 |-> 0] ELSE r.dac
             /\ wire_rx' = wire_rx \o Printed(r.out)
             /\ dev_last' = [valid |-> TRUE, line |-> dev_buf, pre |-> Session,
                             pre_dac |-> dac, out |-> r.out, acq |-> r.acq,
                             fault_seen |-> dev_last.fault_seen \/ r.exc
                                            \/ r.out = <<ErrLine(99)>>,
                             start_seen |-> dev_last.start_seen
                                            \/ r.out = <<OkLine("start-ready")>>]
    /\ UNCHANGED <<ioVars, guiVars>>
    /\ UNCHANGED fn

(***************************************************************************)
(* Host I/O thread: GUIserial.py, class SerialIO                           *)
(***************************************************************************)
\* hdr of run() before a header is read
NoHdr == [kind |-> "none", N |-> 0, IDX |-> 0, DIR |-> 0, COUNT |-> 0]

READ_SIZE == 1024       \* self.ser.read(1024)

\* bytes.find(sep): the first position of the separator, 0 if there is none
FindCRLF(b) ==
    LET hits == {i \in 1..(Len(b) - 1) : b[i].a = "CR" /\ b[i + 1].a = "LF"}
    IN  IF hits = {} THEN 0 ELSE CHOOSE i \in hits : \A j \in hits : i <= j
FindLF(b) ==
    LET hits == {i \in 1..Len(b) : b[i].a = "LF"}
    IN  IF hits = {} THEN 0 ELSE CHOOSE i \in hits : \A j \in hits : i <= j

\* for sep in (b"\r\n", b"\n"): idx = buf.find(sep); if idx >= 0: cut there
SplitLine(b) ==
    LET i == FindCRLF(b)
        j == FindLF(b)
    IN  IF i > 0
        THEN [found |-> TRUE, line |-> SubSeq(b, 1, i - 1), rest |-> SubSeq(b, i + 2, Len(b))]
        ELSE IF j > 0
        THEN [found |-> TRUE, line |-> SubSeq(b, 1, j - 1), rest |-> SubSeq(b, j + 1, Len(b))]
        ELSE [found |-> FALSE, line |-> <<>>, rest |-> b]

\* _readline() when ser.read returns the next k bytes of the wire: the line it
\* returns (found = FALSE for None), the buffer and the wire it leaves
readline(b, wire, k) ==
    LET fast == SplitLine(b)
        b2   == b \o SubSeq(wire, 1, k)
        slow == SplitLine(b2)
    IN  IF fast.found
        THEN [found |-> TRUE, line |-> fast.line, buf |-> fast.rest, wire |-> wire]
        ELSE [found |-> slow.found, line |-> slow.line, buf |-> slow.rest,
              wire |-> SubSeq(wire, k + 1, Len(wire))]

\* the chunk lengths ser.read(1024) can return within its 0.1 s timeout
ChunkLens(b, wire) ==
    IF SplitLine(b).found THEN {0}
    ELSE 0..(IF Len(wire) < READ_SIZE THEN Len(wire) ELSE READ_SIZE)

\* (a parser that falls back on the default when int() fails)
HdrInt_lenient(kv, key, default) ==
    IF ~Has(kv, key) \/ ~kv[key].num THEN [ok |-> TRUE, n |-> default]
    ELSE [ok |-> TRUE, n |-> kv[key].n]
\* int(kv.get(key, default)) of _parse_header: ok = FALSE if int() raises
HdrInt(kv, key, default) ==
    IF ~Has(kv, key) THEN [ok |-> TRUE, n |-> default]
    ELSE [ok |-> kv[key].num, n |-> kv[key].n]

\* _parse_header(hline): kind "none" stands for None (blank line or exception)
parse_header(hline) ==
    LET parts == Parts(hline)
        head  == IF parts[1].a = "W" THEN Upper(parts[1].k) ELSE "?"
        kv    == parse_kv(Tail(parts))
        isOk  == parts[2].a = "W" /\ Upper(parts[2].k) = "OK"
        n     == HdrInt(kv, "N", 0)
        idx   == HdrInt(kv, "IDX", 0)
        dir   == HdrInt(kv, "DIR", 1)
        cnt   == HdrInt(kv, "COUNT", 0)
        none  == NoHdr
    IN  IF parts = <<>> THEN none
        ELSE IF head \in {"LINE", "POINT"} /\ Len(parts) < 2 THEN none   \* IndexError
        ELSE IF head = "LINE" /\ isOk
        THEN IF n.ok /\ idx.ok /\ dir.ok
             THEN [kind |-> "line", N |-> n.n, IDX |-> idx.n, DIR |-> dir.n, COUNT |-> 0]
             ELSE none                                                   \* ValueError
        ELSE IF head = "POINT" /\ isOk
        THEN IF cnt.ok
             THEN [kind |-> "point", N |-> 0, IDX |-> 0, DIR |-> 0, COUNT |-> cnt.n]
             ELSE none
        ELSE IF head = "OK"  THEN [none EXCEPT !.kind = "ok"]
        ELSE IF head = "ERR" THEN [none EXCEPT !.kind = "err"]
        ELSE [none EXCEPT !.kind = "unknown"]

\* str.strip() of a line: leading and trailing terminator bytes dropped
RECURSIVE LStrip(_)
LStrip(l) == IF l # <<>> /\ IsTerm(Head(l)) THEN LStrip(Tail(l)) ELSE l
RECURSIVE RStrip(_)
RStrip(l) == IF l # <<>> /\ IsTerm(l[Len(l)]) THEN RStrip(SubSeq(l, 1, Len(l) - 1)) ELSE l
Strip(l) == RStrip(LStrip(l))

\* _parse_csv_floats(line, expected): ok = FALSE stands for None; the count
\* expected is not used; ys are the values in millionths
parse_csv_floats(line, expected) ==
    LET core == Strip(line)
    IN  IF \E i \in 1..Len(core) : core[i].a # "F" \/ ~core[i].num
        THEN [ok |-> FALSE, ys |-> <<>>]
        ELSE [ok |-> TRUE, ys |-> [i \in 1..Len(core) |-> core[i].n]]

LineFrame(y, idx, dir) == [kind |-> "line", y |-> y, idx |-> idx, dir |-> dir]
PointFrame(y)          == [kind |-> "point", y |-> y, idx |-> 0, dir |-> 0]

guiAndDev == <<devVars, guiVars>>

\* run(): self._open()
IoOpen ==
    /\ io_pc = "open"
    /\ ser_open' = TRUE
    /\ io_pc' = "top"
    /\ UNCHANGED <<buf, io_hdr, stop_ev, tx_q, data_q, io_hist, wireVars, guiAndDev>>
    /\ UNCHANGED fn

\* while not self.stop.is_set(): the loop goes on ...
IoLoop ==
    /\ io_pc = "top"
    /\ ~stop_ev
    /\ io_pc' = "drain"
    /\ UNCHANGED <<buf, io_hdr, ser_open, stop_ev, tx_q, data_q, io_hist, wireVars, guiAndDev>>
    /\ UNCHANGED fn

\* (a thread that ends without closing the port)
IoClose_leak ==
    /\ io_pc = "top"
    /\ stop_ev
    /\ io_pc' = "done"
    /\ UNCHANGED <<buf, io_hdr, ser_open, stop_ev, tx_q, data_q, io_hist, wireVars, guiAndDev>>
    /\ UNCHANGED fn
\* ... or ends: the finally block closes the port
IoClose ==
    /\ io_pc = "top"
    /\ stop_ev
    /\ ser_open' = FALSE
    /\ io_pc' = "done"
    /\ UNCHANGED <<buf, io_hdr, stop_ev, tx_q, data_q, io_hist, wireVars, guiAndDev>>
    /\ UNCHANGED fn

\* The transport fails.  serial.Serial() raises in _open(), outside the try:
\* the thread ends and no port was opened.  ser.write raises on a command
\* taken off the queue, or ser.read raises in _readline(): the exception
\* leaves the loop through the finally block, which closes the port.
IoFault ==
    /\ \/ io_pc = "open" /\ UNCHANGED tx_q
       \/ io_pc = "drain" /\ tx_q # <<>> /\ tx_q' = Tail(tx_q)
       \/ io_pc \in {"header", "payload"} /\ UNCHANGED tx_q
    /\ ser_open' = FALSE
    /\ io_hdr' = NoHdr
    /\ io_pc' = "done"
    /\ UNCHANGED <<buf, stop_ev, data_q, io_hist, wireVars, guiAndDev>>
    /\ UNCHANGED fn

\* (a writer that sends the command as queued)
CmdBytesRaw(cmd) == cmd
\* if not cmd.endswith("\n"): cmd += "\n"
CmdBytes(cmd) == IF cmd # <<>> /\ cmd[Len(cmd)].a = "LF" THEN cmd ELSE cmd \o <<LF>>

\* 1) writes: cmd = in_q.get_nowait(); newline appended if absent; ser.write
IoSendOne ==
    /\ io_pc = "drain"
    /\ tx_q # <<>>
    /\ wire_tx' = wire_tx \o CmdBytes(Head(tx_q))
    /\ tx_q' = Tail(tx_q)
    /\ UNCHANGED <<buf, io_pc, io_hdr, ser_open, stop_ev, data_q, io_hist, wire_rx,
                   guiAndDev>>
    /\ UNCHANGED fn

\* except queue.Empty: pass
IoDrained ==
    /\ io_pc = "drain"
    /\ tx_q = <<>>
    /\ io_pc' = "header"
    /\ UNCHANGED <<buf, io_hdr, ser_open, stop_ev, tx_q, data_q, io_hist, wireVars, guiAndDev>>
    /\ UNCHANGED fn

\* 2) reads: h = self._readline(); hdr = self._parse_header(h).  The loop
\* continues at the top unless the header declares a payload.
IoReadHeader ==
    /\ io_pc = "header"
    /\ \E k \in ChunkLens(buf, wire_rx) :
         \E r \in {readline(buf, wire_rx, k)} :
         \E hdr \in {IF r.found THEN parse_header(r.line) ELSE NoHdr} :
             /\ buf' = r.buf
             /\ wire_rx' = r.wire
             /\ IF hdr.kind \in {"line", "point"}
                THEN io_hdr' = hdr /\ io_pc' = "payload"
                ELSE io_hdr' = NoHdr /\ io_pc' = "top"
    /\ UNCHANGED <<ser_open, stop_ev, tx_q, data_q, io_hist, wire_tx, guiAndDev>>
    /\ UNCHANGED fn

\* pl = self._readline(); if pl is None: continue; y = _parse_csv_floats(pl, ..);
\* if y is None: continue; self.out_q.put(frame)
IoReadPayload ==
    /\ io_pc = "payload"
    /\ \E k \in ChunkLens(buf, wire_rx) :
         \E r \in {readline(buf, wire_rx, k)} :
         \E y \in {parse_csv_floats(r.line, IF io_hdr.kind = "line" THEN io_hdr.N
                                                                     ELSE io_hdr.COUNT)} :
             /\ buf' = r.buf
             /\ wire_rx' = r.wire
             /\ IF r.found /\ y.ok
                THEN /\ data_q' = Append(data_q,
                                    IF io_hdr.kind = "line"
                                    THEN LineFrame(y.ys, io_hdr.IDX, io_hdr.DIR)
                                    ELSE PointFrame(y.ys))
                     /\ io_hist' = [io_hist EXCEPT !.put = @ + 1]
                ELSE UNCHANGED <<data_q, io_hist>>
    /\ io_hdr' = NoHdr
    /\ io_pc' = "top"
    /\ UNCHANGED <<ser_open, stop_ev, tx_q, wire_tx, guiAndDev>>
    /\ UNCHANGED fn

(***************************************************************************)
(* Host consumer: GUIserial.py, class STMApp (the Tk thread)               *)
(***************************************************************************)
BUF_MAXLEN == 10000     \* deque(maxlen=10000)
HOST_BIAS == 20000      \* _request_start: BIAS CODE={20000}
RadioValues == {1, 2, 4, 8, 16, 32, 64, 128, 256}

\* update_scan_label: max(1, 65536 // (zoom * res))
ScanSize(zoom, res) ==
    LET s == U16 \div (zoom * res) IN IF s < 1 THEN 1 ELSE s

\* progress_bar['value'] as the fraction 100 * num / den
Pct(num, den) == [num |-> 100 * num, den |-> den]

\* self.topo: None, or an N x N image.  The cells of a row that was never
\* written are NaN; a written row is kept as the samples it was made of
\* (rev: written reversed) and its cells are given by TopoCell.
NoTopo == [set |-> FALSE, N |-> 0, rows |-> <<>>]
reset_topography(N) == [set |-> TRUE, N |-> N, rows |-> <<>>]

\* np.interp(np.linspace(0, len(y)-1, N), np.arange(len(y)), y)[c], c in 0..N-1,
\* as a fraction (the samples themselves when len(y) = N)
Interp(y, N, c) ==
    IF N = 1 THEN [num |-> y[1], den |-> 1]
    ELSE LET pos == c * (Len(y) - 1)
             i   == pos \div (N - 1)
             f   == pos % (N - 1)
         IN  IF f = 0 THEN [num |-> y[i + 1] * (N - 1), den |-> N - 1]
             ELSE [num |-> y[i + 1] * (N - 1) + (y[i + 2] - y[i + 1]) * f, den |-> N - 1]

TopoCell(t, r, c) ==
    IF r \notin DOMAIN t.rows THEN [num |-> 0, den |-> 0]      \* NaN
    ELSE LET row == t.rows[r]
         IN  Interp(row.y, t.N, IF row.rev THEN t.N - 1 - c ELSE c)

\* (a consumer that stores every row as it was received)
update_topography_line_noflip(t, y, idx, dir) ==
    [t EXCEPT !.rows = (idx :> [y |-> y, rev |-> FALSE]) @@ @]
\* update_topography_line(y, line_idx, direction), for a y that is not empty
\* (np.interp raises ValueError on an empty y)
update_topography_line(t, y, idx, dir) ==
    [t EXCEPT !.rows = (idx :> [y |-> y, rev |-> ~(dir >= 0)]) @@ @]

\* (a buffer that refuses new samples once it is full)
append_time_series_keep_old(b, y) ==
    LET all == b \o y
    IN  IF Len(all) > BUF_MAXLEN THEN SubSeq(all, 1, BUF_MAXLEN) ELSE all
\* append_time_series: y_buffer.extend(y) on a deque of maxlen 10000
append_time_series(b, y) ==
    LET all == b \o y
    IN  IF Len(all) > BUF_MAXLEN
        THEN SubSeq(all, Len(all) - BUF_MAXLEN + 1, Len(all)) ELSE all

\* the command strings of _request_start and _request_next_line
StartCmd(n)     == <<W("START"), KV("N", n)>>
BiasCmd(code)   == <<W("BIAS"), KV("CODE", code)>>
LineCmd(n, idx) == <<W("LINE"), KV("N", n), KV("IDX", idx)>>

request_start_bias_first(n) == <<BiasCmd(HOST_BIAS), StartCmd(n)>>
request_start(n) == <<StartCmd(n), BiasCmd(HOST_BIAS)>>

request_next_line(n, idx) == <<LineCmd(n, idx)>>

\* gui_last: what the last handler of the Tk thread did
\* (pre: the state it found; taken: the frames a tick took off the queue)
NoGui == [op |-> "none", raised |-> FALSE, sent |-> <<>>, had_line |-> FALSE,
          taken |-> <<>>,
          pre |-> [scanning |-> FALSE, line_idx |-> 0, direction |-> 1, nrows |-> 0,
                   buflen |-> 0, progress |-> Pct(0, 1)]]
GuiDid(op, sent) ==
    [NoGui EXCEPT !.op = op, !.sent = sent,
                  !.pre = [scanning |-> scanning, line_idx |-> line_idx,
                           direction |-> direction,
                           nrows |-> Cardinality(DOMAIN topo.rows),
                           buflen |-> Len(y_buffer), progress |-> progress]]

ioRest == <<buf, io_pc, io_hdr, ser_open, stop_ev, io_hist>>

\* toggle_scan(): the Start/Stop button
toggle_scan ==
    /\ tx_q = <<>>
    /\ IF ~scanning
       THEN LET cmds == request_start(linear_size) \o request_next_line(linear_size, 0)
            IN  /\ scanning' = TRUE
                /\ progress' = Pct(0, 1)
                /\ line_idx' = 0
                /\ direction' = 1
                /\ topo' = reset_topography(linear_size)
                /\ y_buffer' = <<>>
                /\ tx_q' = tx_q \o cmds
                /\ gui_last' = GuiDid("start", cmds)
       ELSE /\ scanning' = FALSE
            /\ progress' = Pct(0, 1)
            /\ gui_last' = GuiDid("stop", <<>>)
            /\ UNCHANGED <<line_idx, direction, topo, y_buffer, tx_q>>
    /\ UNCHANGED <<linear_size, zoom_var, resolution_var, poll_armed, data_q, ioRest,
                   devVars, wireVars>>
    /\ UNCHANGED fn

\* on_zoom_change() -> update_scan_label()
on_zoom_change(z) ==
    /\ zoom_var' = z
    /\ linear_size' = ScanSize(z, resolution_var)
    /\ gui_last' = GuiDid("zoom", <<>>)
    /\ UNCHANGED <<scanning, line_idx, direction, resolution_var, topo, y_buffer, progress,
                   poll_armed, tx_q, data_q, ioRest, devVars, wireVars>>
    /\ UNCHANGED fn

\* on_resolution_change() -> update_scan_label()
on_resolution_change(r) ==
    /\ resolution_var' = r
    /\ linear_size' = ScanSize(zoom_var, r)
    /\ gui_last' = GuiDid("res", <<>>)
    /\ UNCHANGED <<scanning, line_idx, direction, zoom_var, topo, y_buffer, progress,
                   poll_armed, tx_q, data_q, ioRest, devVars, wireVars>>
    /\ UNCHANGED fn

HasKind(q, kind) == \E i \in 1..Len(q) : q[i].kind = kind
\* (the first frame of a kind)
FirstOfKind(q, kind) ==
    q[CHOOSE i \in 1..Len(q) :
        q[i].kind = kind /\ \A j \in 1..(i - 1) : q[j].kind # kind]
\* last_line / last_point: the last frame of a kind taken off the queue
LastOfKind(q, kind) ==
    q[CHOOSE i \in 1..Len(q) :
        q[i].kind = kind /\ \A j \in (i + 1)..Len(q) : q[j].kind # kind]

\* (a consumer that asks for the next row whether it scans or not)
NextLineAlways(scan, idx, total) == idx + 1 < total
\* if self.scanning: if idx + 1 < self.linear_size: ask for the next row
NextLineWanted(scan, idx, total) == scan /\ idx + 1 < total

\* (a consumer that shows point frames while it scans)
PointShownAlways(q, scan) == HasKind(q, "point")
\* elif last_point is not None and not self.scanning
PointShown(q, scan) == HasKind(q, "point") /\ ~scan

\* (a consumer that asks again for the row it waits for)
stalled_tick_retries(scan, n, idx) == IF scan THEN <<LineCmd(n, idx)>> ELSE <<>>
\* what a tick that took no line frame sends: nothing (the only _send of a
\* tick is under 'if last_line is not None'; the POINT poll is commented out)
stalled_tick_sends(scan, n, idx) == <<>>

\* _poll_device(): one tick of the consumer.  The queue is emptied and the
\* last line frame (or else the last point frame) is shown.  An exception
\* ends the tick where it is raised, before the next tick is scheduled.
poll_device ==
    /\ poll_armed
    /\ tx_q = <<>>
    /\ data_q' = <<>>
    /\ IF HasKind(data_q, "line")
       THEN LET f    == LastOfKind(data_q, "line")
                draw == topo.set /\ 0 <= f.idx /\ f.idx < topo.N
                did  == [GuiDid("tick", <<>>) EXCEPT !.had_line = TRUE, !.taken = data_q]
            IN  IF draw /\ Len(f.y) = 0
                THEN /\ poll_armed' = FALSE
                     /\ gui_last' = [did EXCEPT !.raised = TRUE]
                     /\ UNCHANGED <<scanning, line_idx, direction, topo, y_buffer,
                                    progress, tx_q>>
                ELSE /\ poll_armed' = TRUE
                     /\ topo' = IF draw THEN update_topography_line(topo, f.y, f.idx, f.dir)
                                ELSE topo
                     /\ y_buffer' = append_time_series(y_buffer, f.y)
                     /\ IF NextLineWanted(scanning, f.idx, linear_size)
                        THEN /\ direction' = -direction
                             /\ line_idx' = f.idx + 1
                             /\ tx_q' = tx_q \o request_next_line(linear_size, f.idx + 1)
                             /\ progress' = Pct(f.idx + 1, linear_size)
                             /\ gui_last' = [did EXCEPT
                                               !.sent = request_next_line(linear_size, f.idx + 1)]
                             /\ UNCHANGED scanning
                        ELSE /\ scanning' = FALSE
                             /\ progress' = IF scanning THEN Pct(0, 1)
                                            ELSE Pct(f.idx + 1, linear_size)
                             /\ gui_last' = did
                             /\ UNCHANGED <<direction, line_idx, tx_q>>
       ELSE /\ y_buffer' = IF PointShown(data_q, scanning)
                           THEN append_time_series(y_buffer, LastOfKind(data_q, "point").y)
                           ELSE y_buffer
            /\ tx_q' = tx_q \o stalled_tick_sends(scanning, linear_size, line_idx)
            /\ gui_last' = [GuiDid("tick", <<>>) EXCEPT !.taken = data_q]
            /\ UNCHANGED <<scanning, line_idx, direction, topo, progress, poll_armed>>
    /\ UNCHANGED <<linear_size, zoom_var, resolution_var, ioRest, devVars, wireVars>>
    /\ UNCHANGED fn

(***************************************************************************)
(* Initial state: the firmware has run its start-up lines (219-222, 252),  *)
(* the GUI its constructor (231-382).                                      *)
(***************************************************************************)

InitDev ==
    /\ frame_N = DEFAULT_N
    /\ cur_line_idx = 0
    /\ cur_dir = 1
    /\ bias_code = DEFAULT_BIAS
    /\ dac = [ch \in 0..3 |-> IF ch = BIAS_CH THEN DEFAULT_BIAS ELSE MID_CODE]
    /\ dev_buf = <<>>
    /\ dev_alive = TRUE
    /\ dev_last = [valid |-> FALSE, line |-> <<>>,
                   pre |-> [frame_N |-> DEFAULT_N, cur_line_idx |-> 0, cur_dir |-> 1,
                            bias_code |-> DEFAULT_BIAS],
                   pre_dac |-> [ch \in 0..3 |-> IF ch = BIAS_CH THEN DEFAULT_BIAS ELSE MID_CODE],
                   out |-> <<>>, acq |-> <<>>, fault_seen |-> FALSE,
                   start_seen |-> FALSE]

InitWire ==
    /\ wire_tx = <<>>
    /\ wire_rx = Printed(<<OkLine("pico-ready")>>)

InitIo ==
    /\ buf = <<>>
    /\ io_pc = "open"
    /\ io_hdr = NoHdr
    /\ ser_open = FALSE
    /\ stop_ev = FALSE
    /\ tx_q = <<>>
    /\ data_q = <<>>
    /\ io_hist = [put |-> 0, replies |-> 0, pairs |-> 0, eols |-> {"LF"},
                  sent |-> {}]

InitGui ==
    /\ scanning = FALSE
    /\ line_idx = 0
    /\ direction = 1
    /\ zoom_var = 1
    /\ resolution_var = 128
    /\ linear_size = ScanSize(1, 128)
    /\ topo = NoTopo
    /\ y_buffer = <<>>
    /\ progress = Pct(0, 1)
    /\ poll_armed = TRUE
    /\ gui_last = NoGui

\* no function is under evaluation
NoFn == [op |-> "none"]

Init == InitDev /\ InitWire /\ InitIo /\ InitGui /\ fn = NoFn

(***************************************************************************)
(* The firmware alone, driven by command lines a peer may send.            *)
(***************************************************************************)
NArgs     == {<<>>, <<KVbad("N")>>} \cup {<<KV("N", n)>> : n \in {1, 2, 3, 4097}}
IdxArgs   == {<<>>, <<KVbad("IDX")>>} \cup {<<KV("IDX", i)>> : i \in {-1, 0, 1, 2, 3}}
StartArgs == {<<>>, <<KVbad("N")>>} \cup {<<KV("N", n)>> : n \in {1, 2, 4096, 5000}}
CountArgs == {<<>>, <<KVbad("COUNT")>>} \cup {<<KV("COUNT", c)>> : c \in {0, 1, 3}}
CodeArgs  == {<<>>, <<KVbad("CODE")>>} \cup {<<KV("CODE", c)>> : c \in {-1, 20000, 70000}}

CmdLines ==
    {<<W("START")>> \o a : a \in StartArgs}
    \cup {<<W("LINE")>> \o a \o b : a \in NArgs, b \in IdxArgs}
    \cup {<<W("LINE"), KV("N", 4096), KV("IDX", 4096)>>}
    \cup {<<W("POINT")>> \o a : a \in CountArgs}
    \cup {<<W("BIAS")>> \o a : a \in CodeArgs}
    \cup { <<W("STATUS")>>, <<W("STATUS"), CR>>, <<W("HELLO")>>, <<>>, <<KV("N", 3)>>,
           <<W("line"), KV("n", 3), KV("idx", 1)>>,
           <<W("LINE"), KV("IDX", 2), KV("N", 2), W("x"), KV("N", 3)>>,
           <<W("START"), KV("N", 5000), KV("n", 2)>> }

\* Lines that make the device take 4096 samples.  They are tried while the
\* frame size is the power-on one only, which keeps the states that hold a
\* 4096-sample reply few.
FullSizeLines ==
    { <<W("LINE"), KV("N", 4096), KV("IDX", 4095)>>, <<W("POINT"), KV("COUNT", 5000)>> }

\* A peer writes one command line
EnvSendLine ==
    /\ wire_tx = <<>>
    /\ wire_rx = <<>>
    /\ dev_buf = <<>>
    /\ \E line \in CmdLines \cup (IF frame_N = DEFAULT_N THEN FullSizeLines ELSE {}) :
         wire_tx' = line \o <<LF>>
    /\ dev_last' = NoLast
    /\ UNCHANGED <<frame_N, cur_line_idx, cur_dir, bias_code, dac, dev_buf, dev_alive,
                   wire_rx, ioVars, guiVars>>
    /\ UNCHANGED fn

\* A peer takes the device's output off the wire
EnvTakeReply ==
    /\ wire_rx # <<>>
    /\ wire_rx' = <<>>
    /\ UNCHANGED <<devVars, wire_tx, ioVars, guiVars>>
    /\ UNCHANGED fn

NextDev == DevReadChar \/ DevHandleLine \/ EnvSendLine \/ EnvTakeReply

SpecDev == Init /\ [][NextDev]_vars

(***************************************************************************)
(* Properties of the firmware (checked under SpecDev).                     *)
(* dev_last describes the last handled line; the session variables are the *)
(* state that handling left.                                               *)
(***************************************************************************)
LastParts == Parts(dev_last.line)
LastCmd   == IF LastParts # <<>> /\ LastParts[1].a = "W" THEN Upper(LastParts[1].k) ELSE "?"
LastKv    == IF LastParts = <<>> THEN <<>> ELSE parse_kv(Tail(LastParts))
LastHas(key) == key \in DOMAIN LastKv
LastInt(key) == LastHas(key) /\ LastKv[key].num
LastArg(key) == LastKv[key].n
LastErr(code) == dev_last.out = <<ErrLine(code)>>
LineHeader(n, idx, dir) ==
    <<W("LINE"), W("OK"), KV("N", n), KV("IDX", idx), KV("DIR", dir)>>
IsLineOk(l)  == Len(l) >= 2 /\ l[1] = W("LINE") /\ l[2] = W("OK")
\* the value of KEY=value in a reply line
Field(l, key) == l[CHOOSE i \in 1..Len(l) : l[i].a = "KV" /\ l[i].k = key].n
\* the last line was a LINE command with integer N in [2,4096], IDX in [0,N)
LastValidLine ==
    /\ dev_last.valid
    /\ LastCmd = "LINE"
    /\ LastInt("N") /\ LastInt("IDX")
    /\ LastArg("N") >= 2 /\ LastArg("N") <= 4096
    /\ LastArg("IDX") >= 0 /\ LastArg("IDX") < LastArg("N")

\* C1: a valid LINE command (N in [2,4096], IDX in [0,N)) is answered with a
\* LINE OK header whose DIR is +1 if IDX is even and -1 if IDX is odd, whatever
\* the session was before.
C1_DirParity ==
    LastValidLine =>
        /\ Len(dev_last.out) >= 1
        /\ IsLineOk(dev_last.out[1])
        /\ (Field(dev_last.out[1], "DIR") = 1)  <=> (LastArg("IDX") % 2 = 0)
        /\ (Field(dev_last.out[1], "DIR") = -1) <=> (LastArg("IDX") % 2 = 1)

\* an even row answered DIR=+1 although the session stood at DIR=-1 before
C1_Witness ==
    /\ LastValidLine
    /\ dev_last.pre.cur_dir = -1
    /\ LastArg("IDX") % 2 = 0
    /\ Field(dev_last.out[1], "DIR") = 1

\* C2: START without N replies ERR CODE=10; START with an integer N outside
\* [2,4096] replies ERR CODE=11; START with N in [2,4096] replies OK and leaves
\* frame_N = N, cur_line_idx = 0, cur_dir = +1.
C2_Start ==
    (dev_last.valid /\ LastCmd = "START") =>
        /\ ~LastHas("N") => LastErr(10)
        /\ (LastInt("N") /\ (LastArg("N") < 2 \/ LastArg("N") > 4096)) => LastErr(11)
        /\ (LastInt("N") /\ LastArg("N") >= 2 /\ LastArg("N") <= 4096) =>
              /\ dev_last.out = <<OkLine("start-ready")>>
              /\ frame_N = LastArg("N")
              /\ cur_line_idx = 0
              /\ cur_dir = 1

\* START N=4096 accepted from a session that stood on an odd row
C2_Witness ==
    /\ dev_last.valid /\ LastCmd = "START"
    /\ LastInt("N") /\ LastArg("N") = 4096
    /\ dev_last.pre.cur_line_idx # 0 /\ dev_last.pre.cur_dir = -1
    /\ frame_N = 4096 /\ cur_line_idx = 0 /\ cur_dir = 1

\* C3 as stated: LINE replies ERR CODE=30 when N or IDX is missing, ERR CODE=31
\* when N is outside [2,4096], ERR CODE=32 when IDX is outside [0,N).
C3_AsStated ==
    (dev_last.valid /\ LastCmd = "LINE") =>
        /\ (~LastHas("N") \/ ~LastHas("IDX")) => LastErr(30)
        /\ (LastHas("N") /\ LastHas("IDX") /\ LastInt("N")
              /\ (LastArg("N") < 2 \/ LastArg("N") > 4096)) => LastErr(31)
        /\ (LastHas("N") /\ LastHas("IDX") /\ LastInt("IDX") /\ LastInt("N")
              /\ LastArg("N") >= 2 /\ LastArg("N") <= 4096
              /\ (LastArg("IDX") < 0 \/ LastArg("IDX") >= LastArg("N"))) => LastErr(32)

\* C3 amended: LINE replies ERR CODE=30 when N or IDX is missing; when both
\* are present and both are integers, ERR CODE=31 when N is outside [2,4096]
\* and ERR CODE=32 when N is inside and IDX is outside [0,N); when both are
\* present and one is not an integer, ERR CODE=99.  In each of these cases the
\* reply is that one ERR line: no LINE OK header, no CSV line.
C3_LineErrors ==
    (dev_last.valid /\ LastCmd = "LINE") =>
        /\ (~LastHas("N") \/ ~LastHas("IDX")) => LastErr(30)
        /\ (LastHas("N") /\ LastHas("IDX") /\ ~(LastInt("N") /\ LastInt("IDX")))
              => LastErr(99)
        /\ (LastInt("N") /\ LastInt("IDX")
              /\ (LastArg("N") < 2 \/ LastArg("N") > 4096)) => LastErr(31)
        /\ (LastInt("N") /\ LastInt("IDX")
              /\ LastArg("N") >= 2 /\ LastArg("N") <= 4096
              /\ (LastArg("IDX") < 0 \/ LastArg("IDX") >= LastArg("N"))) => LastErr(32)

\* LINE N=4096 IDX=4096: N passes the range test, IDX = N does not
C3_Witness ==
    /\ dev_last.valid /\ LastCmd = "LINE"
    /\ LastInt("N") /\ LastInt("IDX")
    /\ LastArg("N") = 4096 /\ LastArg("IDX") = 4096
    /\ LastErr(32)

\* C4: a successful LINE N IDX leaves frame_N = N and cur_line_idx = IDX and
\* replies the header LINE OK N IDX DIR and one CSV line of exactly N values,
\* the k-th (from 0) being the sample read with X at position k when DIR=+1
\* and at position N-1-k when DIR=-1.
C4_LineReply ==
    LastValidLine =>
        LET N   == LastArg("N")
            IDX == LastArg("IDX")
            dir == IF IDX % 2 = 0 THEN 1 ELSE -1
        IN  /\ frame_N = N
            /\ cur_line_idx = IDX
            /\ Len(dev_last.out) = 2
            /\ dev_last.out[1] = LineHeader(N, IDX, dir)
            /\ Len(dev_last.out[2]) = N
            /\ Len(dev_last.acq) = N
            /\ \A k \in 0..(N - 1) :
                 LET pos == IF dir = 1 THEN k ELSE N - 1 - k
                 IN  /\ dev_last.acq[k + 1].pos = pos
                     /\ dev_last.acq[k + 1].x_code = lin_code(pos, N)
                     /\ dev_last.out[2][k + 1] = F(Fmt6(dev_last.acq[k + 1].adc))

\* an odd row of three pixels, swept right to left, adopted over another size
C4_Witness ==
    /\ LastValidLine
    /\ LastArg("N") = 3 /\ LastArg("IDX") = 1
    /\ dev_last.pre.frame_N # 3
    /\ dev_last.acq[1].pos = 2 /\ dev_last.acq[3].pos = 0
    /\ dev_last.out[2][1] # dev_last.out[2][3]

\* C5: a command rejected with ERR CODE 10, 11, 20, 21, 30, 31 or 32 leaves
\* frame_N, cur_line_idx, cur_dir and bias_code as they were before it.
ArgErrCodes == {10, 11, 20, 21, 30, 31, 32}
C5_ArgErrorKeepsSession ==
    (dev_last.valid /\ \E c \in ArgErrCodes : LastErr(c)) => Session = dev_last.pre

\* BIAS with a non-integer CODE rejected in a session that differs from the
\* power-on one in every field
C5_Witness ==
    /\ dev_last.valid /\ LastErr(21)
    /\ Session = dev_last.pre
    /\ frame_N # DEFAULT_N /\ cur_line_idx # 0 /\ cur_dir = -1 /\ bias_code # DEFAULT_BIAS

\* a command whose handler raises: START or LINE with a non-integer argument
\* (LINE with both keys present), POINT with a non-integer COUNT
LastFaults ==
    /\ dev_last.valid
    /\ \/ LastCmd = "START" /\ LastHas("N") /\ ~LastInt("N")
       \/ LastCmd = "LINE" /\ LastHas("N") /\ LastHas("IDX")
            /\ ~(LastInt("N") /\ LastInt("IDX"))
       \/ LastCmd = "POINT" /\ LastHas("COUNT") /\ ~LastInt("COUNT")

\* C6: a command whose execution raises is answered with ERR CODE=99 (and
\* nothing else) and leaves the session as it was, and the command loop is
\* running in every reachable state, whatever lines were sent before (a
\* running loop reads the next character: dev_alive is the whole guard of
\* DevReadChar and DevHandleLine on a non-empty wire).
C6_FaultKeepsLoop ==
    /\ dev_alive
    /\ LastFaults => (LastErr(99) /\ Session = dev_last.pre)

\* after an earlier fault, a LINE command is served with its full reply
C6_Witness ==
    /\ dev_last.fault_seen
    /\ LastValidLine
    /\ dev_last.out = <<LineHeader(LastArg("N"), LastArg("IDX"), cur_dir),
                        [k \in 1..LastArg("N") |-> F(Fmt6(dev_last.acq[k].adc))]>>

\* C12: a STATUS command, in whatever session state it is handled, leaves
\* frame_N, cur_line_idx, cur_dir and bias_code as they were and is answered
\* by one OK line that carries exactly these four values.
C12_StatusReadsOnly ==
    (dev_last.valid /\ LastCmd = "STATUS") =>
        /\ Session = dev_last.pre
        /\ dev_last.out = << <<W("OK"), KVbad("MSG"), KV("N", frame_N),
                               KV("IDX", cur_line_idx), KV("DIR", cur_dir),
                               KV("BIAS_CODE", bias_code)>> >>

\* STATUS answered in a session that differs from the power-on one in every
\* field
C12_Witness ==
    /\ dev_last.valid /\ LastCmd = "STATUS"
    /\ frame_N # DEFAULT_N /\ cur_line_idx # 0 /\ cur_dir = -1 /\ bias_code # DEFAULT_BIAS
    /\ Field(dev_last.out[1], "IDX") = cur_line_idx
    /\ Field(dev_last.out[1], "BIAS_CODE") = bias_code

\* C13: POINT with no COUNT or an integer COUNT is answered by POINT OK
\* COUNT=c and one CSV line of exactly c values, c being 200 without COUNT and
\* else COUNT brought into [1,4096]; this holds whether or not a START was
\* accepted before, and the session fields stay as they were.
C13_Point ==
    (dev_last.valid /\ LastCmd = "POINT" /\ (LastHas("COUNT") => LastInt("COUNT"))) =>
        LET c == IF ~LastHas("COUNT") THEN 200
                 ELSE IF LastArg("COUNT") < 1 THEN 1
                 ELSE IF LastArg("COUNT") > 4096 THEN 4096
                 ELSE LastArg("COUNT")
        IN  /\ Len(dev_last.out) = 2
            /\ dev_last.out[1] = <<W("POINT"), W("OK"), KV("COUNT", c)>>
            /\ Len(dev_last.out[2]) = c
            /\ \A i \in 1..c : dev_last.out[2][i].a = "F" /\ dev_last.out[2][i].num
            /\ Session = dev_last.pre

\* POINT without COUNT, before any START was accepted: 200 values
C13_Witness ==
    /\ dev_last.valid /\ LastCmd = "POINT" /\ ~LastHas("COUNT")
    /\ ~dev_last.start_seen
    /\ Len(dev_last.out[2]) = 200

\* C14: BIAS without CODE is answered ERR CODE=20, with a CODE that is not
\* an integer ERR CODE=21; with an integer CODE it is answered OK, the sticky
\* bias code becomes CODE modulo 65536 and the bias output carries it at
\* once.  No other command changes the sticky code, and after every served
\* LINE the bias output carries it.
C14_Bias ==
    /\ (dev_last.valid /\ LastCmd = "BIAS" /\ ~LastHas("CODE")) => LastErr(20)
    /\ (dev_last.valid /\ LastCmd = "BIAS" /\ LastHas("CODE") /\ ~LastInt("CODE"))
         => LastErr(21)
    /\ (dev_last.valid /\ LastCmd = "BIAS" /\ LastInt("CODE")) =>
         /\ dev_last.out = <<OkLine("bias-set")>>
         /\ bias_code = LastArg("CODE") % 65536
         /\ dac[BIAS_CH] = bias_code
    /\ (dev_last.valid /\ LastCmd # "BIAS") => bias_code = dev_last.pre.bias_code
    /\ LastValidLine => dac[BIAS_CH] = bias_code

\* a LINE served after BIAS CODE=70000: the bias output carries 4464
C14_Witness ==
    /\ LastValidLine
    /\ bias_code = 4464
    /\ dev_last.pre.bias_code = 4464
    /\ dac[BIAS_CH] = 4464

\* a reply line that starts with OK or ERR
IsStatusLine(l) == l # <<>> /\ l[1] \in {W("OK"), W("ERR")}
\* a CSV line of n values
IsCsvOf(l, n) == Len(l) = n /\ \A i \in 1..n : l[i].a = "F" /\ l[i].num

\* C17: a command line that holds at least one token is answered by exactly
\* one reply: one OK or ERR line and nothing more, or a LINE OK header and
\* one CSV line of as many values as its N, or a POINT OK header and one CSV
\* line of as many values as its COUNT; the wire carries these lines and no
\* others.
C17_ReplyShape ==
    (dev_last.valid /\ LastParts # <<>>) =>
        /\ \/ Len(dev_last.out) = 1 /\ IsStatusLine(dev_last.out[1])
           \/ /\ Len(dev_last.out) = 2
              /\ IsLineOk(dev_last.out[1])
              /\ IsCsvOf(dev_last.out[2], Field(dev_last.out[1], "N"))
           \/ /\ Len(dev_last.out) = 2
              /\ Len(dev_last.out[1]) = 3
              /\ dev_last.out[1][1] = W("POINT") /\ dev_last.out[1][2] = W("OK")
              /\ IsCsvOf(dev_last.out[2], Field(dev_last.out[1], "COUNT"))
        /\ wire_rx # <<>> => wire_rx = Printed(dev_last.out)

\* an unknown command answered by the single line ERR CODE=1, on the wire
C17_Witness ==
    /\ dev_last.valid /\ LastCmd = "HELLO"
    /\ LastErr(1)
    /\ wire_rx = ErrLine(1) \o <<LF>>

\* C29: in every state of the device the frame size is in [2,4096], the row
\* index in [0, frame size), the direction +1 on an even row and -1 on an odd
\* one, and the bias code in [0,65535].
C29_SessionInvariant ==
    /\ 2 <= frame_N /\ frame_N <= 4096
    /\ 0 <= cur_line_idx /\ cur_line_idx < frame_N
    /\ cur_dir \in {1, -1}
    /\ (cur_dir = 1) <=> (cur_line_idx % 2 = 0)
    /\ 0 <= bias_code /\ bias_code <= 65535

\* after BIAS CODE=-1 and a LINE of the last row of the smallest frame: size
\* 2, row 1, direction -1, bias 65535
C29_Witness ==
    /\ dev_last.valid /\ LastCmd = "LINE"
    /\ frame_N = 2 /\ cur_line_idx = 1 /\ cur_dir = -1
    /\ bias_code = 65535
    /\ dev_last.pre.frame_N # 2

(***************************************************************************)
(* The I/O thread alone.  Its peer is the firmware in its power-on state,  *)
(* which answers a few commands; each reply is written whole, and read by  *)
(* the host in chunks of any length.                                       *)
(***************************************************************************)
MaxReplies == 2

PeerCmds ==
    { <<W("LINE"), KV("N", 2), KV("IDX", 0)>>, <<W("LINE"), KV("N", 2), KV("IDX", 1)>>,
      <<W("POINT"), KV("COUNT", 2)>>, <<W("STATUS")>> }

Eol(e) == IF e = "CRLF" THEN <<CR, LF>> ELSE <<LF>>

\* the lines of a reply as bytes on the wire
RECURSIVE Terminated(_, _)
Terminated(lines, e) ==
    IF lines = <<>> THEN <<>> ELSE Head(lines) \o Eol(e) \o Terminated(Tail(lines), e)

\* The peer writes one reply (what it writes to a closed port is lost)
EnvReply ==
    /\ io_pc # "done"
    /\ io_hist.replies < MaxReplies
    /\ \E c \in PeerCmds, e \in {"LF", "CRLF"} :
         LET out == handle_line(c, 0).out
         IN  /\ wire_rx' = wire_rx \o Terminated(out, e)
             /\ io_hist' = [io_hist EXCEPT !.replies = @ + 1,
                                           !.pairs = @ + (IF Len(out) = 2 THEN 1 ELSE 0),
                                           !.eols = @ \cup {e},
                                           !.sent = @ \cup {out}]
    /\ UNCHANGED <<devVars, guiVars, wire_tx, buf, io_pc, io_hdr, ser_open, stop_ev,
                   tx_q, data_q>>
    /\ UNCHANGED fn

\* What the GUI thread queues in one go: one command, with or without its
\* newline, or the three commands that start a scan
CmdBatches ==
    { << <<W("STATUS")>> >>, << <<W("STATUS"), LF>> >>,
      request_start(2) \o request_next_line(2, 0) }

\* The GUI thread queues commands, _send(cmd), once the last ones are gone.
\* It sets the stop flag in _on_close only, and queues nothing after that.
EnvCommand ==
    /\ ~stop_ev
    /\ tx_q = <<>> /\ wire_tx = <<>>
    /\ \E batch \in CmdBatches : tx_q' = tx_q \o batch
    /\ UNCHANGED <<devVars, guiVars, wireVars, buf, io_pc, io_hdr, ser_open, stop_ev,
                   data_q, io_hist>>
    /\ UNCHANGED fn

\* The peer takes the command off the wire
EnvTakeCmd ==
    /\ wire_tx # <<>>
    /\ wire_tx' = <<>>
    /\ UNCHANGED <<devVars, guiVars, ioVars, wire_rx>>
    /\ UNCHANGED fn

\* The GUI thread stops the loop: io.stop.set()
EnvStop ==
    /\ ~stop_ev
    /\ stop_ev' = TRUE
    /\ UNCHANGED <<devVars, guiVars, wireVars, buf, io_pc, io_hdr, ser_open, tx_q,
                   data_q, io_hist>>
    /\ UNCHANGED fn

NextIO ==
    \/ IoOpen \/ IoLoop \/ IoClose \/ IoSendOne \/ IoDrained
    \/ IoReadHeader \/ IoReadPayload
    \/ EnvReply \/ EnvCommand \/ EnvTakeCmd \/ EnvStop

SpecIO == Init /\ [][NextIO]_vars

\* The I/O thread is a thread of its own and none of its steps blocks for
\* ever (get_nowait never waits, a read gives up after its 0.1 s timeout):
\* while it has a step to take it takes one.
IoStep ==
    \/ IoOpen \/ IoLoop \/ IoClose \/ IoSendOne \/ IoDrained
    \/ IoReadHeader \/ IoReadPayload

\* A peer that answers once at most
EnvReplyOnce == io_hist.replies = 0 /\ EnvReply

NextIOFair ==
    \/ IoOpen \/ IoLoop \/ IoClose \/ IoSendOne \/ IoDrained
    \/ IoReadHeader \/ IoReadPayload
    \/ EnvReplyOnce \/ EnvCommand \/ EnvTakeCmd \/ EnvStop

SpecIOFair == Init /\ [][NextIOFair]_vars /\ WF_vars(IoStep)

(***************************************************************************)
(* Properties of the I/O thread (checked under SpecIO).                    *)
(***************************************************************************)
\* every byte sent has been read and taken out of the buffer, and the loop
\* runs and holds no header
Quiescent ==
    /\ ser_open /\ ~stop_ev
    /\ wire_rx = <<>> /\ buf = <<>>
    /\ io_pc # "payload"

\* the frame that a header line and its payload line stand for
FrameOf(r) ==
    LET h == parse_header(r[1])
        y == parse_csv_floats(r[2], 0).ys
    IN  IF h.kind = "line" THEN LineFrame(y, h.IDX, h.DIR) ELSE PointFrame(y)

\* C7: once a payload-declaring header is read the thread waits for its
\* payload line, so that every header+CSV pair sent makes exactly one frame
\* however the bytes are split over reads: when all bytes of replies that
\* end their lines alike have been consumed, there are as many frames as
\* pairs.
C7_AsStated ==
    (Quiescent /\ io_hist.eols = {"LF"}) => io_hist.put = io_hist.pairs

\* C8: every frame on the inbound queue is made of the header of one reply
\* and of the payload line of that same reply.
C8_AsStated ==
    \A i \in 1..Len(data_q) :
       \E r \in io_hist.sent : Len(r) = 2 /\ data_q[i] = FrameOf(r)

\* C26: whatever mix of "\r\n" and "\n" ends the lines of the stream, a call
\* of _readline() either takes nothing out of the stream (no line yet, the
\* partial bytes are kept), or takes its next line and that line's
\* terminator and no more: the bytes taken hold one newline, the last one.
C26_AsStated ==
    [][(io_pc \in {"header", "payload"} /\ io_pc' # io_pc) =>
         LET before == buf \o wire_rx
             after  == buf' \o wire_rx'
             n      == Len(before) - Len(after)
             taken  == SubSeq(before, 1, n)
         IN  /\ after = SubSeq(before, n + 1, Len(before))
             /\ n > 0 => /\ taken[n].a = "LF"
                         /\ \A i \in 1..(n - 1) : taken[i].a # "LF"]_vars

(***************************************************************************)
(* The I/O thread and a peer that sends single lines of any kind: status   *)
(* lines, malformed headers, headers and payloads, each ended by "\n".     *)
(***************************************************************************)
JunkLines == 3

JunkSet ==
    { ErrLine(31), <<W("HELLO")>>, <<W("LINE")>>,
      <<W("LINE"), W("OK"), KVbad("N")>>,
      <<W("LINE"), W("OK"), KV("N", 2), KV("IDX", 0), KV("DIR", 1)>>,
      <<F(1000000), Fbad>>, <<F(1000000), F(-2000000)>> }

\* The peer writes one line
EnvJunk ==
    /\ io_pc # "done"
    /\ io_hist.replies < JunkLines
    /\ \E l \in JunkSet :
         /\ wire_rx' = wire_rx \o l \o <<LF>>
         /\ io_hist' = [io_hist EXCEPT !.replies = @ + 1, !.sent = @ \cup {<<l>>}]
    /\ UNCHANGED <<devVars, guiVars, wire_tx, buf, io_pc, io_hdr, ser_open, stop_ev,
                   tx_q, data_q>>
    /\ UNCHANGED fn

NextIOJunk ==
    \/ IoOpen \/ IoLoop \/ IoClose \/ IoDrained
    \/ IoReadHeader \/ IoReadPayload
    \/ EnvJunk \/ EnvStop

SpecIOJunk == Init /\ [][NextIOJunk]_vars

\* a header that declares a payload: LINE OK or POINT OK with integer fields
GoodHeader(l) ==
    /\ Len(l) >= 2 /\ l[1] \in {W("LINE"), W("POINT")} /\ l[2] = W("OK")
    /\ \A i \in 1..Len(l) : l[i].a = "KV" => l[i].num

\* C27: a line read as a header that is an OK, ERR or unknown line or a
\* malformed header, and a line read as a payload that holds a token that is
\* no number, put no frame on the inbound queue and do not end the loop; the
\* read takes that line alone, and the next line is read as a header.
C27_JunkSkipped ==
    [][(io_pc \in {"header", "payload"} /\ io_pc' # io_pc) =>
         LET before == buf \o wire_rx
             after  == buf' \o wire_rx'
             n      == Len(before) - Len(after)
             line   == SubSeq(before, 1, n - 1)
         IN  (/\ n > 0
              /\ \/ io_pc = "header" /\ ~GoodHeader(line)
                 \/ io_pc = "payload" /\ \E i \in 1..Len(line) : ~line[i].num)
             => /\ data_q' = data_q
                /\ io_pc' = "top" /\ io_hdr' = NoHdr /\ ser_open'
                /\ before[n].a = "LF"
                /\ \A i \in 1..Len(line) : line[i].a # "LF"]_vars

\* 'LINE OK N=abc' was sent, then a header and its payload: the first was
\* read and skipped, the loop runs, the pair is still to be read as header
\* and payload
C27_Witness ==
    /\ io_pc = "top" /\ ser_open /\ buf = <<>> /\ data_q = <<>>
    /\ io_hist.replies = 3
    /\ io_hist.sent = { << <<W("LINE"), W("OK"), KVbad("N")>> >>,
                        << <<W("LINE"), W("OK"), KV("N", 2), KV("IDX", 0), KV("DIR", 1)>> >>,
                        << <<F(1000000), F(-2000000)>> >> }
    /\ wire_rx = <<W("LINE"), W("OK"), KV("N", 2), KV("IDX", 0), KV("DIR", 1), LF,
                   F(1000000), F(-2000000), LF>>

(***************************************************************************)
(* The I/O thread on a transport that may fail.                            *)
(***************************************************************************)
NextIOStop ==
    \/ IoOpen \/ IoLoop \/ IoClose \/ IoSendOne \/ IoDrained
    \/ IoReadHeader \/ IoReadPayload \/ IoFault
    \/ EnvReplyOnce \/ EnvCommand \/ EnvTakeCmd \/ EnvStop

SpecIOStop == Init /\ [][NextIOStop]_vars /\ WF_vars(IoStep)

\* the bytes of a command without its final newline, if it has one
CmdBody(cmd) ==
    IF cmd # <<>> /\ cmd[Len(cmd)].a = "LF" THEN SubSeq(cmd, 1, Len(cmd) - 1) ELSE cmd

\* the outbound queue only grows at its end (commands are queued), or loses
\* its head, and then the head, ended by one newline, is what the wire gains;
\* the wire gains nothing else
C18_InOrderOnce ==
    [][(tx_q' # tx_q \/ wire_tx' # wire_tx) =>
         \/ /\ Len(tx_q') > Len(tx_q)
            /\ SubSeq(tx_q', 1, Len(tx_q)) = tx_q
            /\ wire_tx' = wire_tx
         \/ /\ tx_q # <<>> /\ ser_open /\ io_pc = "drain"
            /\ tx_q' = Tail(tx_q)
            /\ wire_tx' = wire_tx \o CmdBody(Head(tx_q)) \o <<LF>>
         \/ /\ wire_tx' = <<>>
            /\ tx_q' = tx_q]_vars

\* a queued command leaves the queue unless the thread is told to stop
C18_Flushed == (tx_q # <<>>) ~> (tx_q = <<>> \/ stop_ev)

\* every pass of the loop that is not stopped takes the queue first, before
\* any read
C18_DrainFirst ==
    [][(io_pc = "top" /\ io_pc' # io_pc) => io_pc' \in {"drain", "done"}]_vars
    /\ [][(io_pc' = "header" /\ io_pc # io_pc') => (io_pc = "drain" /\ tx_q = <<>>)]_vars

\* C18: while the I/O thread runs, every queued command is written to the
\* wire exactly once, in queue order, ended by exactly one newline; the
\* queue is emptied at the start of every pass of the loop, so that a queued
\* command is written in the end, whether or not the device sends anything.
C18_CommandsWritten == C18_InOrderOnce /\ C18_DrainFirst /\ C18_Flushed

\* the three commands that start a scan are on the wire in their order, one
\* newline each, and the device has sent nothing but its power-on line
C18_Witness ==
    /\ ~stop_ev /\ ser_open /\ tx_q = <<>>
    /\ io_hist.replies = 0
    /\ wire_tx = StartCmd(2) \o <<LF>> \o BiasCmd(HOST_BIAS) \o <<LF>> \o LineCmd(2, 0) \o <<LF>>

\* the thread has ended => the port is closed
C25_ClosedAtEnd == io_pc = "done" => ~ser_open

\* with the stop flag set the thread starts no pass of the loop
C25_NoNewPass == [][stop_ev => ~(io_pc = "top" /\ io_pc' = "drain")]_vars

\* C25: once the stop flag is set the loop ends, without starting another
\* pass after the one it is in; however the loop ends, by the stop flag or
\* by an error of a read or a write, the port is closed when the thread ends.
C25_StopsAndCloses ==
    []C25_ClosedAtEnd /\ C25_NoNewPass /\ (stop_ev ~> (io_pc = "done"))

\* the thread ended on a transport error, never told to stop, after it had
\* written a command: the port is closed
C25_Witness ==
    /\ io_pc = "done" /\ ~stop_ev /\ ~ser_open
    /\ wire_tx # <<>>

(***************************************************************************)
(* The consumer alone: the operator presses buttons, the I/O thread puts   *)
(* frames on the inbound queue and takes commands off the outbound one.    *)
(***************************************************************************)
MaxFrames == 2

\* the radio buttons the operator uses
HostZooms == {1, 256}
HostRes   == {128, 256}

\* the frames the I/O thread delivers: any index a header may carry, and as
\* many samples as the payload line held (none for an empty line)
HostYs  == {<<>>, <<1000000, -2000000>>}
HostIdx == {0, 1, 511}
HostFrames ==
    {LineFrame(y, i, LineDir(i)) : y \in HostYs, i \in HostIdx}
    \cup {PointFrame(<<1000000, -2000000>>)}

\* out_q.put(frame)
EnvFrame ==
    /\ io_hist.put < MaxFrames
    /\ \E f \in HostFrames : data_q' = Append(data_q, f)
    /\ io_hist' = [io_hist EXCEPT !.put = @ + 1]
    /\ UNCHANGED <<devVars, wireVars, guiVars, buf, io_pc, io_hdr, ser_open, stop_ev, tx_q>>
    /\ UNCHANGED fn

\* in_q.get_nowait() until the queue is empty
EnvTakeTx ==
    /\ tx_q # <<>>
    /\ tx_q' = <<>>
    /\ UNCHANGED <<devVars, wireVars, guiVars, buf, io_pc, io_hdr, ser_open, stop_ev,
                   data_q, io_hist>>
    /\ UNCHANGED fn

NextHost ==
    \/ toggle_scan
    \/ \E z \in HostZooms : on_zoom_change(z)
    \/ \E r \in HostRes : on_resolution_change(r)
    \/ poll_device
    \/ EnvFrame
    \/ EnvTakeTx

SpecHost == Init /\ [][NextHost]_vars

(***************************************************************************)
(* Properties of the consumer (checked under SpecHost).                    *)
(***************************************************************************)
\* C9: a tick that processes a line frame idx while scanning enqueues exactly
\* LINE N=total IDX=idx+1 if idx+1 < total, and otherwise enqueues nothing
\* and leaves the host idle.
C9_AsStated ==
    [][(poll_armed /\ scanning /\ HasKind(data_q, "line") /\ data_q' = <<>>)
         => LET idx == LastOfKind(data_q, "line").idx
            IN  IF idx + 1 < linear_size
                THEN tx_q' = Append(tx_q, LineCmd(linear_size, idx + 1)) /\ scanning'
                ELSE tx_q' = tx_q /\ ~scanning']_vars

\* C11: no step that leaves the host idle puts a command on the outbound
\* queue: stopping a scan sends nothing, and from the stop to the next start
\* no LINE request (no command at all) is enqueued, whatever frames arrive.
C11_IdleSendsNothing ==
    [][~scanning' => (tx_q' = tx_q \/ tx_q' = <<>>)]_vars

\* a tick of the idle host, after a scan, drew a line frame whose successor
\* row exists, and asked for nothing
C11_Witness ==
    /\ gui_last.op = "tick" /\ gui_last.had_line /\ ~gui_last.raised
    /\ ~gui_last.pre.scanning /\ ~scanning
    /\ topo.set /\ Cardinality(DOMAIN topo.rows) > gui_last.pre.nrows
    /\ progress.num > 0 /\ progress.num < 100 * progress.den
    /\ tx_q = <<>>

\* C19: a tick takes every frame off the inbound queue; of the line frames
\* it took, only the last can be drawn into the topography, added to the
\* rolling buffer or followed by a LINE request (for the row after its own);
\* a tick that took no line frame draws nothing and requests nothing.
C19_LastLineOnly ==
    [][(poll_armed /\ data_q # <<>> /\ Len(data_q') < Len(data_q)) =>
         /\ data_q' = <<>>
         /\ \/ /\ \A i \in 1..Len(data_q) : data_q[i].kind # "line"
               /\ topo' = topo /\ tx_q' = tx_q
            \/ \E i \in 1..Len(data_q) :
                  /\ data_q[i].kind = "line"
                  /\ \A j \in (i + 1)..Len(data_q) : data_q[j].kind # "line"
                  /\ topo' \in {topo, update_topography_line(topo, data_q[i].y,
                                                             data_q[i].idx, data_q[i].dir)}
                  /\ y_buffer' \in {y_buffer, append_time_series(y_buffer, data_q[i].y)}
                  /\ tx_q' \in {tx_q, Append(tx_q, LineCmd(linear_size, data_q[i].idx + 1))}]_vars

\* a tick of a scan took two line frames, row 1 and then row 0: row 0 alone
\* is drawn, its two samples alone are in the rolling buffer, row 1 requested
C19_Witness ==
    /\ gui_last.op = "tick" /\ ~gui_last.raised /\ gui_last.pre.scanning
    /\ gui_last.pre.nrows = 0 /\ gui_last.pre.buflen = 0
    /\ gui_last.taken = <<LineFrame(<<1000000, -2000000>>, 1, -1),
                          LineFrame(<<1000000, -2000000>>, 0, 1)>>
    /\ DOMAIN topo.rows = {0}
    /\ Len(y_buffer) = 2
    /\ tx_q = <<LineCmd(linear_size, 1)>>

\* C22: a line frame that holds another number of samples than the image is
\* wide is not discarded: the tick that processes it writes a full row for
\* it at its index.
C22_AsStated ==
    [][(/\ poll_armed /\ Len(data_q') < Len(data_q) /\ HasKind(data_q, "line")
        /\ topo.set
        /\ LastOfKind(data_q, "line").idx \in 0..(topo.N - 1)
        /\ Len(LastOfKind(data_q, "line").y) # topo.N)
         => LET f == LastOfKind(data_q, "line")
            IN  /\ f.idx \in DOMAIN topo'.rows
                /\ topo'.rows[f.idx] = [y |-> f.y, rev |-> f.dir < 0]
                /\ \A c \in {0, topo.N - 1} : TopoCell(topo', f.idx, c).den # 0]_vars

\* C23: the tick that processes line frame idx overwrites row idx of the
\* image, reversed for a negative direction, and no other row; a frame whose
\* idx is no row of the image, or that comes before any scan start, leaves
\* the image as it was.
C23_AsStated ==
    [][(poll_armed /\ Len(data_q') < Len(data_q) /\ HasKind(data_q, "line"))
         => LET f == LastOfKind(data_q, "line")
            IN  IF topo.set /\ f.idx \in 0..(topo.N - 1)
                THEN /\ topo'.set /\ topo'.N = topo.N
                     /\ DOMAIN topo'.rows = DOMAIN topo.rows \cup {f.idx}
                     /\ topo'.rows[f.idx] = [y |-> f.y, rev |-> f.dir < 0]
                     /\ \A r \in DOMAIN topo.rows \ {f.idx} : topo'.rows[r] = topo.rows[r]
                ELSE topo' = topo]_vars

\* C28: while the host scans, only a tick that took a line frame puts a
\* command on the outbound queue, and only such a tick or the operator's
\* stop ends the scanning state: as long as no line frame reaches the
\* consumer, the host sends no LINE request, does not retry and stays
\* scanning until the operator stops the scan.
C28_StallsSilently ==
    [][scanning =>
         /\ Len(tx_q') > Len(tx_q) => (HasKind(data_q, "line") /\ data_q' = <<>>)
         /\ ~scanning' => \/ HasKind(data_q, "line") /\ data_q' = <<>>
                          \/ gui_last'.op = "stop"]_vars

\* the host scans, its commands were taken by the I/O thread, no line frame
\* ever came (a point frame did): the last tick sent nothing
C28_Witness ==
    /\ scanning /\ tx_q = <<>> /\ data_q = <<>>
    /\ gui_last.op = "tick" /\ gui_last.pre.scanning
    /\ gui_last.taken = <<PointFrame(<<1000000, -2000000>>)>>
    /\ io_hist.put = 1
    /\ line_idx = 0 /\ DOMAIN topo.rows = {}

\* C35: whatever frames a tick finds on the inbound queue, it runs to its
\* end without an exception and schedules the next tick: the timer stays
\* armed for ever.
C35_AsStated ==
    [][poll_armed => (poll_armed' /\ ~gui_last'.raised)]_vars

\* C10: the step that starts a scan leaves progress 0, row index 0, direction
\* +1, a topography image of the current size with every cell NaN and an
\* empty rolling buffer, and appends START N=size, BIAS CODE=20000,
\* LINE N=size IDX=0, in this order, to the outbound queue.
C10_StartScan ==
    [][(~scanning /\ scanning')
         => /\ progress'.num = 0
            /\ line_idx' = 0
            /\ direction' = 1
            /\ topo'.set /\ topo'.N = linear_size
            /\ \A r \in 0..(topo'.N - 1) : TopoCell(topo', r, 0).den = 0
            /\ y_buffer' = <<>>
            /\ tx_q' = tx_q \o <<StartCmd(linear_size), BiasCmd(HOST_BIAS),
                                 LineCmd(linear_size, 0)>>]_vars

\* a scan is started over the traces of an earlier one: rows drawn, samples
\* in the rolling buffer, row index and progress advanced, direction -1
C10_Witness ==
    /\ gui_last.op = "start"
    /\ gui_last.pre.line_idx > 0 /\ gui_last.pre.direction = -1
    /\ gui_last.pre.nrows > 0 /\ gui_last.pre.buflen > 0
    /\ gui_last.pre.progress.num > 0
    /\ linear_size # ScanSize(1, 128)
    /\ scanning /\ line_idx = 0 /\ y_buffer = <<>>

(***************************************************************************)
(* Ticks that find several frames: the I/O thread delivers up to three     *)
(* frames, point frames among them, between two ticks of the consumer.     *)
(***************************************************************************)
TickFrames == 3

TickFrameSet ==
    { PointFrame(<<1000000>>), PointFrame(<<-2000000>>),
      LineFrame(<<1000000, -2000000>>, 0, 1) }

\* out_q.put(frame)
EnvTickFrame ==
    /\ io_hist.put < TickFrames
    /\ \E f \in TickFrameSet : data_q' = Append(data_q, f)
    /\ io_hist' = [io_hist EXCEPT !.put = @ + 1]
    /\ UNCHANGED <<devVars, wireVars, guiVars, buf, io_pc, io_hdr, ser_open, stop_ev, tx_q>>
    /\ UNCHANGED fn

NextTick ==
    \/ toggle_scan
    \/ poll_device
    \/ EnvTickFrame
    \/ EnvTakeTx

SpecTick == Init /\ [][NextTick]_vars

PointsOf(q) == {i \in 1..Len(q) : q[i].kind = "point"}
LinesOf(q)  == {i \in 1..Len(q) : q[i].kind = "line"}

\* C20: a tick that finds two point frames and one line frame on the inbound
\* queue processes the line frame and the later of the two point frames: on
\* an idle host the rolling buffer gains the samples of both (a scanning
\* host shows no point frame, and the buffer gains the line's samples).
C20_AsStated ==
    [][(/\ poll_armed /\ Len(data_q') < Len(data_q)
        /\ Cardinality(PointsOf(data_q)) = 2 /\ Cardinality(LinesOf(data_q)) = 1)
         => LET l == data_q[CHOOSE i \in LinesOf(data_q) : TRUE]
                p == data_q[CHOOSE i \in PointsOf(data_q) :
                              \A j \in PointsOf(data_q) : j <= i]
            IN  /\ poll_armed'
                /\ IF scanning
                   THEN y_buffer' = append_time_series(y_buffer, l.y)
                   ELSE y_buffer' \in
                          { append_time_series(append_time_series(y_buffer, l.y), p.y),
                            append_time_series(append_time_series(y_buffer, p.y), l.y) }]_vars

\* C21: a tick adds the samples of a point frame to the rolling buffer only
\* on an idle host; on a scanning host a tick that took point frames and no
\* line frame leaves the rolling buffer, the topography, the progress value
\* and the outbound queue as they were.
C21_PointOnlyIdle ==
    [][(poll_armed /\ Len(data_q') < Len(data_q) /\ PointsOf(data_q) # {}) =>
         /\ (\E i \in PointsOf(data_q) :
               /\ y_buffer' # y_buffer
               /\ y_buffer' = append_time_series(y_buffer, data_q[i].y)) => ~scanning
         /\ (scanning /\ LinesOf(data_q) = {}) =>
               UNCHANGED <<y_buffer, topo, progress, tx_q>>]_vars

\* a tick of a scanning host took two point frames and changed nothing
C21_Witness ==
    /\ gui_last.op = "tick" /\ gui_last.pre.scanning /\ scanning
    /\ gui_last.taken = <<PointFrame(<<1000000>>), PointFrame(<<-2000000>>)>>
    /\ y_buffer = <<>> /\ topo.set /\ DOMAIN topo.rows = {}
    /\ progress = Pct(0, 1) /\ tx_q = <<>>

(***************************************************************************)
(* The rolling buffer under long frames: an idle host is sent frames of up *)
(* to 4096 samples, each sample different from those before it.            *)
(***************************************************************************)
BufFrames == 3

\* n samples base+1, ..., base+n
Ramp(base, n) == [i \in 1..n |-> base + i]

BufFrameSet ==
    { PointFrame(Ramp(0, MAX_N)),
      LineFrame(Ramp(100000, BUF_MAXLEN - 2 * MAX_N), 0, 1),
      PointFrame(Ramp(200000, BUF_MAXLEN - 2 * MAX_N + 1)) }

\* out_q.put(frame)
EnvBufFrame ==
    /\ io_hist.put < BufFrames
    /\ \E f \in BufFrameSet : data_q' = Append(data_q, f)
    /\ io_hist' = [io_hist EXCEPT !.put = @ + 1]
    /\ UNCHANGED <<devVars, wireVars, guiVars, buf, io_pc, io_hdr, ser_open, stop_ev, tx_q>>
    /\ UNCHANGED fn

NextBuf == poll_device \/ EnvBufFrame

SpecBuf == Init /\ [][NextBuf]_vars

\* the rolling buffer holds 10000 samples at most
C24_Bounded == Len(y_buffer) <= 10000

\* what a tick adds goes to the end of the rolling buffer in its order, and
\* what no longer fits is taken from the front
C24_NewestKept ==
    [][(poll_armed /\ Len(data_q') < Len(data_q) /\ y_buffer' # y_buffer) =>
         \E i \in 1..Len(data_q) :
            LET all  == y_buffer \o data_q[i].y
                drop == IF Len(all) > 10000 THEN Len(all) - 10000 ELSE 0
            IN  /\ Len(y_buffer') = Len(all) - drop
                /\ \A k \in 1..Len(y_buffer') : y_buffer'[k] = all[k + drop]]_vars

\* C24: the rolling buffer never holds more than 10000 samples; it holds the
\* most recent samples appended, in arrival order, the oldest evicted first.
C24_RollingBuffer == []C24_Bounded /\ C24_NewestKept

\* three frames of 4096 samples were appended: the buffer is full, its first
\* sample is the 2289th of the first frame, its last the last of the third
C24_Witness ==
    /\ gui_last.op = "tick" /\ gui_last.pre.buflen = 2 * MAX_N
    /\ gui_last.taken = <<PointFrame(Ramp(0, MAX_N))>>
    /\ Len(y_buffer) = BUF_MAXLEN
    /\ y_buffer[1] = 3 * MAX_N - BUF_MAXLEN + 1
    /\ y_buffer[BUF_MAXLEN] = MAX_N

(***************************************************************************)
(* The whole system: the operator selects the smallest scan the device     *)
(* accepts and starts it once; the consumer, the I/O thread and the        *)
(* firmware run, joined by the two queues and the two directions of the    *)
(* wire.  Nobody stops the scan and no byte is lost.                       *)
(***************************************************************************)
SYS_ZOOM == 256       \* with resolution 128: a scan of 2 x 2

SysSetSize == ~scanning /\ ~topo.set /\ on_zoom_change(SYS_ZOOM)

\* the scan is started once, with the size 2 that the device accepts
SysStart == ~scanning /\ ~topo.set /\ linear_size = MIN_N /\ toggle_scan

NextSys ==
    \/ SysSetSize \/ SysStart \/ poll_device
    \/ IoOpen \/ IoLoop \/ IoSendOne \/ IoDrained \/ IoReadHeader \/ IoReadPayload
    \/ DevReadChar \/ DevHandleLine

\* a read that takes bytes off the wire
IoReadSome == (IoReadHeader \/ IoReadPayload) /\ wire_rx' # wire_rx

\* The three parties run for ever: the Tk timer fires, the I/O thread and
\* the firmware's main loop take their steps.  The transport delivers every
\* byte: the bytes on the wire are not left unread for ever.
SpecSys ==
    /\ Init /\ [][NextSys]_vars
    /\ WF_vars(poll_device)
    /\ WF_vars(IoStep)
    /\ SF_vars(IoReadSome)
    /\ WF_vars(DevReadChar \/ DevHandleLine)

\* C30: a scan that was started finishes: the host is idle again and every
\* row of the image is written.
C30_AsStated ==
    scanning ~> (~scanning /\ topo.set /\ DOMAIN topo.rows = 0..(topo.N - 1))

(***************************************************************************)
(* lin_code on its own: every frame size the firmware accepts with every   *)
(* pixel index of it, and some sizes outside that range.                   *)
(***************************************************************************)
LinNs == (MIN_N..MAX_N) \cup {-1, 0, 1, MAX_N + 1, 2 * MAX_N}
LinPos(N) ==
    IF N \in MIN_N..MAX_N THEN 0..(N - 1)
    ELSE IF N > MAX_N THEN {0, 1, N \div 2, N - 2, N - 1}
    ELSE {-1, 0, 1, 7}

InitLin ==
    /\ InitDev /\ InitWire /\ InitIo /\ InitGui
    /\ fn \in {[op |-> "lin_code", N |-> n, done |-> FALSE, out |-> <<>>] : n \in LinNs}

\* lin_code(pos, N) for every pos of the size chosen
LinApply ==
    /\ fn.op = "lin_code" /\ ~fn.done
    /\ fn' = [fn EXCEPT !.done = TRUE,
                        !.out = [pos \in LinPos(fn.N) |-> lin_code(pos, fn.N)]]
    /\ UNCHANGED <<devVars, wireVars, ioVars, guiVars>>

SpecLin == InitLin /\ [][LinApply]_vars

\* C15: for N in [2,4096] and pos in [0,N), lin_code(pos, N) lies in
\* [0,65535], does not decrease as pos grows, is 0 at pos = 0 and 65535 at
\* pos = N-1.
C15_LinCodeRange ==
    (fn.done /\ fn.N >= 2 /\ fn.N <= 4096) =>
        /\ \A pos \in 0..(fn.N - 1) :
             LET code == fn.out[pos]
             IN  /\ code >= 0 /\ code <= 65535
                 /\ pos > 0 => fn.out[pos - 1] <= code
        /\ fn.out[0] = 0
        /\ fn.out[fn.N - 1] = 65535

\* the largest frame: 4096 codes from 0 to 65535, 16 apart at the start
C15_Witness ==
    /\ fn.done /\ fn.N = 4096
    /\ fn.out[0] = 0 /\ fn.out[1] = 16 /\ fn.out[4095] = 65535

\* C16 as stated: for N >= 2 and pos in [0,N), lin_code(pos, N) is an integer
\* nearest to pos*65535/(N-1) (either neighbour at a tie); for N <= 1 it is 0.
C16_AsStated ==
    fn.done =>
        \A pos \in DOMAIN fn.out :
           IF fn.N <= 1 THEN fn.out[pos] = 0
           ELSE LET d == 2 * (fn.out[pos] * (fn.N - 1) - pos * 65535)
                IN  d <= fn.N - 1 /\ -d <= fn.N - 1

\* C16: for N >= 2 and pos in [0,N), lin_code(pos, N) is pos*65535/(N-1)
\* rounded down, a value in [0,65535]; for N <= 1 it is 0 for every pos.
C16_LinCodeFloor ==
    fn.done =>
        \A pos \in DOMAIN fn.out :
           LET code == fn.out[pos]
           IN  IF fn.N <= 1 THEN code = 0
               ELSE /\ code * (fn.N - 1) <= pos * 65535
                    /\ pos * 65535 < (code + 1) * (fn.N - 1)
                    /\ code >= 0 /\ code <= 65535

\* five pixels: the second one is 16383.75 rounded down
C16_Witness ==
    /\ fn.done /\ fn.N = 5
    /\ fn.out[1] = 16383

(***************************************************************************)
(* Scan sizes: the operator selects any zoom and any resolution, then      *)
(* starts a scan; the I/O thread writes the commands and the firmware      *)
(* answers them.                                                           *)
(***************************************************************************)
\* the scan is started once, with the size selected
SysStartAny == ~scanning /\ ~topo.set /\ toggle_scan

NextSize ==
    \/ \E z \in RadioValues : ~scanning /\ ~topo.set /\ on_zoom_change(z)
    \/ \E r \in RadioValues : ~scanning /\ ~topo.set /\ on_resolution_change(r)
    \/ SysStartAny
    \/ IoOpen \/ IoLoop \/ IoSendOne \/ IoDrained
    \/ DevReadChar \/ DevHandleLine

SpecSize == Init /\ [][NextSize]_vars

\* C31: whatever zoom and resolution the operator selects, every START and
\* LINE command of the host carries a size N in [2,4096], and the device
\* answers none of them with ERR CODE=11 or ERR CODE=31.
C31_AsStated ==
    /\ \A i \in 1..Len(tx_q) :
          tx_q[i][1] \in {W("START"), W("LINE")} => NInRange(tx_q[i][2].n)
    /\ ~(dev_last.valid /\ (LastErr(11) \/ LastErr(31)))

(***************************************************************************)
(* Restarts: the operator selects the scan of 2 x 2, then starts, stops    *)
(* and starts again as they like, while the consumer, the I/O thread and   *)
(* the firmware run.  Nothing in the program numbers the scans: a command  *)
(* is a line of text and a frame holds samples, row index and direction.   *)
(***************************************************************************)
MaxLines == 2

\* the occurrences of atom x in a sequence of atoms
Count(s, x) == Cardinality({i \in 1..Len(s) : s[i] = x})

\* The LINE requests that are on their way: commands on the outbound queue,
\* on the wire to the device or in the firmware's input line; LINE OK replies
\* on the wire to the host, in the I/O thread's buffer or held as its header;
\* line frames on the inbound queue.
InFlightLines ==
    Cardinality({i \in 1..Len(tx_q) : tx_q[i][1] = W("LINE")})
    + Count(wire_tx, W("LINE")) + Count(dev_buf, W("LINE"))
    + Count(wire_rx, W("LINE")) + Count(buf, W("LINE"))
    + (IF io_hdr.kind = "line" THEN 1 ELSE 0)
    + Cardinality({i \in 1..Len(data_q) : data_q[i].kind = "line"})

\* the Start/Stop button: a scan is started while fewer than MaxLines line
\* frames were delivered or are on their way
RestartToggle ==
    /\ scanning \/ (linear_size = MIN_N /\ io_hist.put + InFlightLines < MaxLines)
    /\ toggle_scan

NextRestart ==
    \/ SysSetSize \/ RestartToggle \/ poll_device
    \/ IoOpen \/ IoLoop \/ IoSendOne \/ IoDrained \/ IoReadHeader \/ IoReadPayload
    \/ DevReadChar \/ DevHandleLine

SpecRestart == Init /\ [][NextRestart]_vars

\* C32: at every moment at most one LINE request is on its way between the
\* host's send and the consumer's processing of the line frame that answers
\* it, whatever starts, stops and restarts there were.
C32_AsStated == InFlightLines <= 1

\* the firmware has not yet read the START command of the scan the host is
\* in: commands are written and read in order, so it has read no command of
\* this scan, and every line frame that exists answers an earlier scan
StartUnread == Count(wire_tx, W("START")) + Count(dev_buf, W("START")) > 0

\* C33: a tick that processes a line frame answering a request of an
\* earlier scan (the firmware has not read the START of the scan the host is
\* in) writes nothing into the image of the later scan and leaves its row
\* index and its progress as they were.
C33_AsStated ==
    [][(/\ scanning /\ StartUnread
        /\ poll_armed /\ HasKind(data_q, "line") /\ data_q' = <<>>)
         => (topo' = topo /\ line_idx' = line_idx /\ progress' = progress)]_vars

(***************************************************************************)
(* A scan of 4 x 4: two rows swept left to right and two right to left,    *)
(* through the firmware, the wire, the I/O thread and the consumer.        *)
(***************************************************************************)
SCAN_ZOOM == 128      \* with resolution 128: a scan of 4 x 4

NextScan ==
    \/ ~scanning /\ ~topo.set /\ on_zoom_change(SCAN_ZOOM)
    \/ ~scanning /\ ~topo.set /\ linear_size = ScanSize(SCAN_ZOOM, 128) /\ toggle_scan
    \/ poll_device
    \/ IoOpen \/ IoLoop \/ IoSendOne \/ IoDrained \/ IoReadHeader \/ IoReadPayload
    \/ DevReadChar \/ DevHandleLine

SpecScan == Init /\ [][NextScan]_vars

\* C34: when a tick has processed the line frame that answers the firmware's
\* last sweep, row idx, with as many samples as the image is wide, cell j of
\* row idx of the image holds the sample the firmware read with X at
\* position j, for j = 0..N-1, whether the row was swept left to right or
\* right to left.
C34_SpatialOrder ==
    [][(/\ poll_armed /\ HasKind(data_q, "line") /\ data_q' = <<>>
        /\ topo.set /\ LastValidLine
        /\ LastOfKind(data_q, "line").idx = LastArg("IDX")
        /\ LastArg("N") = topo.N
        /\ Len(LastOfKind(data_q, "line").y) = topo.N)
         => \A j \in 0..(topo.N - 1) :
              \E k \in 1..topo.N :
                 /\ dev_last.acq[k].pos = j
                 /\ dev_last.acq[k].x_code = lin_code(j, topo.N)
                 /\ TopoCell(topo', LastArg("IDX"), j)
                      = [num |-> Fmt6(dev_last.acq[k].adc) * (topo.N - 1),
                         den |-> topo.N - 1]]_vars

\* the scan of 4 x 4 is done; its last row, row 3, was swept right to left:
\* the firmware's first sample of it is the image's last cell of the row,
\* the firmware's last sample its first cell, and the two differ
C34_Witness ==
    /\ ~scanning /\ topo.set /\ topo.N = 4 /\ DOMAIN topo.rows = 0..3
    /\ gui_last.op = "tick" /\ gui_last.had_line
    /\ LastValidLine /\ LastArg("IDX") = 3 /\ cur_dir = -1
    /\ dev_last.acq[1].pos = 3 /\ dev_last.acq[4].pos = 0
    /\ topo.rows[3].rev /\ ~topo.rows[2].rev
    /\ TopoCell(topo, 3, 0).num = 3 * Fmt6(dev_last.acq[4].adc)
    /\ TopoCell(topo, 3, 3).num = 3 * Fmt6(dev_last.acq[1].adc)
    /\ Fmt6(dev_last.acq[1].adc) # Fmt6(dev_last.acq[4].adc)

====
